---- MODULE Spec2Model ----
(***************************************************************************)
(* A model of the portfolio repository's request-handling code:            *)
(*   - the Arcjet token bucket configured for the server actions and the  *)
(*     two server actions that charge it (subscribeToNewsletter and        *)
(*     setUserRole);                                                       *)
(*   - the HTTP MCP route (POST /api/mcp) and the dice functions it calls, *)
(*     the functions also on their own over their whole argument ranges.   *)
(* Time is counted in seconds.  A bucket balance is kept in units of       *)
(* 1/interval token, so that the refill of refillRate tokens per interval  *)
(* seconds is exact for every whole number of elapsed seconds.             *)
(***************************************************************************)
EXTENDS Integers, Sequences, FiniteSets, TLC

VARIABLES
    now,          \* wall-clock time, in seconds
    buckets,      \* caller key -> [tokens, lastRefillAt]
    subscribers,  \* the subscribers table: the set of stored emails
    users,        \* the users table: email -> role
    last,         \* the last handled request: its inputs, decision and reply
    burst         \* a run of back-to-back charges against one bucket

vars == <<now, buckets, subscribers, users, last, burst>>

----------------------------------------------------------------------------
(* Bounds of the model *)

\* seconds that pass in one step of the clock
TickSeconds == 5
\* the clock stops here
MaxNow == 10
\* largest capacity and cost tried in a burst
MaxCapacity == 12
\* charges in one burst
MaxCharges == 11

\* caller keys (client IP addresses)
IPs == {"10.0.0.1", "10.0.0.2"}

Min(a, b) == IF a <= b THEN a ELSE b

----------------------------------------------------------------------------
(* src/unnamed/part_003 (imported as @/lib/arcjet-server) *)

tokenBucket_RefillOne == [refillRate |-> 1, interval |-> 10, capacity |-> 10]

\* tokenBucket({ refillRate: 5, interval: 10, capacity: 10 })
tokenBucket == [refillRate |-> 5, interval |-> 10, capacity |-> 10]

RATE_LIMITS_AdminAsNewsletter == [NEWSLETTER |-> 5, ADMIN |-> 5, PROJECT |-> 5, DATABASE |-> 2]

RATE_LIMITS_DatabaseThree == [NEWSLETTER |-> 5, ADMIN |-> 10, PROJECT |-> 5, DATABASE |-> 3]

\* the token cost of each kind of action
RATE_LIMITS == [NEWSLETTER |-> 5, ADMIN |-> 10, PROJECT |-> 5, DATABASE |-> 2]

\* a bucket balance of n whole tokens under rule cfg
Units(cfg, n) == n * cfg.interval

FullBucket(cfg, t) == [tokens |-> Units(cfg, cfg.capacity), lastRefillAt |-> t]

\* the balance of bucket b recomputed at time t: refillRate tokens per
\* interval seconds since lastRefillAt, clamped to capacity
Refill(cfg, b, t) ==
    Min(Units(cfg, cfg.capacity), b.tokens + cfg.refillRate * (t - b.lastRefillAt))

CheckAndCharge_NoCompare(cfg, b, cost, t) ==
    [allowed |-> TRUE,
     bucket  |-> [tokens |-> Refill(cfg, b, t) - Units(cfg, cost), lastRefillAt |-> t]]

CheckAndCharge_DenialDiscards(cfg, b, cost, t) ==
    LET refilled == Refill(cfg, b, t)
    IN  IF refilled >= Units(cfg, cost)
        THEN [allowed |-> TRUE,
              bucket  |-> [tokens |-> refilled - Units(cfg, cost), lastRefillAt |-> t]]
        ELSE [allowed |-> FALSE,
              bucket  |-> [tokens |-> b.tokens, lastRefillAt |-> t]]

\* one admission check: refill, compare, subtract
CheckAndCharge(cfg, b, cost, t) ==
    LET refilled == Refill(cfg, b, t)
    IN  IF refilled >= Units(cfg, cost)
        THEN [allowed |-> TRUE,
              bucket  |-> [tokens |-> refilled - Units(cfg, cost), lastRefillAt |-> t]]
        ELSE [allowed |-> FALSE,
              bucket  |-> [tokens |-> refilled, lastRefillAt |-> t]]

aj_protect_SharedKey(ip, requested, arcjet) ==
    IF arcjet = "shield"
    THEN [conclusion |-> "DENY", reason |-> "SHIELD", bucket |-> buckets[ip]]
    ELSE LET key == CHOOSE k \in IPs : TRUE
             c   == CheckAndCharge(tokenBucket, buckets[key], requested, now)
         IN  [conclusion |-> IF c.allowed THEN "ALLOW" ELSE "DENY",
              reason     |-> "RATE_LIMIT",
              bucket     |-> c.bucket]

\* aj.protect(req, { requested }): the Shield rule, then the token bucket
\* of the request's IP.  arcjet is the condition of the call: "ok", "shield"
\* (the request is flagged by Shield) or "error" (the call throws).
aj_protect(ip, requested, arcjet) ==
    IF arcjet = "shield"
    THEN [conclusion |-> "DENY", reason |-> "SHIELD", bucket |-> buckets[ip]]
    ELSE LET c == CheckAndCharge(tokenBucket, buckets[ip], requested, now)
         IN  [conclusion |-> IF c.allowed THEN "ALLOW" ELSE "DENY",
              reason     |-> "RATE_LIMIT",
              bucket     |-> c.bucket]

ArcjetConditions == {"ok", "shield", "error"}

----------------------------------------------------------------------------
(* src/unnamed/part_005: the newsletter server action *)

ValidEmails == {"a@x.io"}
FormEmails == ValidEmails \cup {"not-an-email"}

\* newsletterSubscriptionSchema.safeParse({ email, name }).success
SafeParse(email) == email \in ValidEmails

MsgTooManySubscriptions == "Too many subscription attempts. Please try again in a few seconds."
MsgBotDetected == "Bot detected. If you're human, please try again."
MsgBlockedLater == "Request blocked for security reasons. Please try again later."
MsgInvalidInput == "Invalid input data"
MsgGenericInterest == "Thank you for your interest! If you're not already subscribed, you'll receive updates soon."
MsgSubscribed == "Thank you for subscribing to our newsletter!"
MsgSubscribeFailed == "An error occurred while subscribing. Please try again."

Reply(reached, status, message) ==
    [reached |-> reached, status |-> status, message |-> message]

\* subscribeToNewsletter after the rate-limit block: validation, lookup, insert
NewsletterProceed(email, dbFails) ==
    IF ~SafeParse(email)
    THEN [reply |-> Reply("validation", "error", MsgInvalidInput), subs |-> subscribers]
    ELSE IF dbFails
    THEN [reply |-> Reply("lookup", "error", MsgSubscribeFailed), subs |-> subscribers]
    ELSE IF email \in subscribers
    THEN [reply |-> Reply("lookup", "success", MsgGenericInterest), subs |-> subscribers]
    ELSE [reply |-> Reply("insert", "success", MsgSubscribed),
          subs  |-> subscribers \cup {email}]

NewsletterOnArcjetError_FailClosed(email, dbFails) ==
    [reply  |-> Reply("admission", "error", MsgTooManySubscriptions),
     subs   |-> subscribers,
     logged |-> TRUE]

\* the catch block of the rate-limit try: log the error and continue
NewsletterOnArcjetError(email, dbFails) ==
    [reply  |-> NewsletterProceed(email, dbFails).reply,
     subs   |-> NewsletterProceed(email, dbFails).subs,
     logged |-> TRUE]

NewsletterOnDenied_ValidatesFirst(reason) ==
    IF reason = "RATE_LIMIT" THEN Reply("validation", "error", MsgInvalidInput)
    ELSE IF reason = "BOT" THEN Reply("admission", "error", MsgBotDetected)
    ELSE Reply("admission", "error", MsgBlockedLater)

\* the reply to a denied decision
NewsletterOnDenied(reason) ==
    IF reason = "RATE_LIMIT" THEN Reply("admission", "error", MsgTooManySubscriptions)
    ELSE IF reason = "BOT" THEN Reply("admission", "error", MsgBotDetected)
    ELSE Reply("admission", "error", MsgBlockedLater)

ProtectTag(d) ==
    IF d.conclusion = "ALLOW" THEN "allowed"
    ELSE IF d.reason = "RATE_LIMIT" THEN "rateLimited"
    ELSE "blocked"

\* what is recorded of a handled server action
ActionRecord(op, ip, cost, protect, logged, reply) ==
    [op       |-> op,
     ip       |-> ip,
     at       |-> now,
     cost     |-> cost,
     refilled |-> Refill(tokenBucket, buckets[ip], now),
     protect  |-> protect,
     logged   |-> logged,
     reply    |-> reply]

subscribeToNewsletter(ip, email, arcjet, dbFails) ==
    LET cost == RATE_LIMITS.NEWSLETTER
        d    == aj_protect(ip, cost, arcjet)
        go   == NewsletterProceed(email, dbFails)
        err  == NewsletterOnArcjetError(email, dbFails)
    IN  /\ IF arcjet = "error"
           THEN /\ buckets' = buckets
                /\ subscribers' = err.subs
                /\ last' = ActionRecord("subscribeToNewsletter", ip, cost, "threw",
                                        err.logged, err.reply)
           ELSE /\ buckets' = [buckets EXCEPT ![ip] = d.bucket]
                /\ IF d.conclusion = "DENY"
                   THEN /\ subscribers' = subscribers
                        /\ last' = ActionRecord("subscribeToNewsletter", ip, cost,
                                                ProtectTag(d), FALSE,
                                                NewsletterOnDenied(d.reason))
                   ELSE /\ subscribers' = go.subs
                        /\ last' = ActionRecord("subscribeToNewsletter", ip, cost,
                                                ProtectTag(d), FALSE, go.reply)
        /\ UNCHANGED <<now, users, burst>>

----------------------------------------------------------------------------
(* src/app/actions/admin.ts *)

KnownUsers == {"a@x.io"}

\* the calls of setUserRole tried: who calls, and with which arguments
RoleRequests ==
    {[callerIsAdmin |-> FALSE, email |-> "a@x.io", role |-> "admin"],
     [callerIsAdmin |-> TRUE, email |-> "", role |-> "admin"],
     [callerIsAdmin |-> TRUE, email |-> "a@x.io", role |-> ""],
     [callerIsAdmin |-> TRUE, email |-> "a@x.io", role |-> "root"],
     [callerIsAdmin |-> TRUE, email |-> "nobody@x.io", role |-> "user"],
     [callerIsAdmin |-> TRUE, email |-> "a@x.io", role |-> "admin"],
     [callerIsAdmin |-> TRUE, email |-> "a@x.io", role |-> "user"]}

MsgTooManyRequests == "Too many requests. Please slow down and try again in a few seconds."
MsgBlocked == "Request blocked for security reasons."
MsgUnauthorized == "Unauthorized. Admin privileges required"
MsgRequired == "Email and role are required"
MsgBadRole == "Role must be 'admin' or 'user'"
MsgUnableToUpdate == "Unable to update user role. Please verify the information and try again."
\* `User role updated to ${role}`, for the two roles that get this far
MsgRoleUpdated(role) ==
    IF role = "admin" THEN "User role updated to admin" ELSE "User role updated to user"
MsgSetRoleFailed == "Failed to set user role"

SetUserRoleProceed_NoAdminCheck(callerIsAdmin, email, role, dbFails) ==
    IF email = "" \/ role = ""
    THEN [reply |-> Reply("args", "error", MsgRequired), users |-> users]
    ELSE IF role /= "admin" /\ role /= "user"
    THEN [reply |-> Reply("args", "error", MsgBadRole), users |-> users]
    ELSE IF dbFails
    THEN [reply |-> Reply("lookup", "error", MsgSetRoleFailed), users |-> users]
    ELSE IF email \notin DOMAIN users
    THEN [reply |-> Reply("lookup", "error", MsgUnableToUpdate), users |-> users]
    ELSE [reply |-> Reply("update", "success", MsgRoleUpdated(role)),
          users |-> [users EXCEPT ![email] = role]]

\* setUserRole after the rate-limit block
SetUserRoleProceed(callerIsAdmin, email, role, dbFails) ==
    IF ~callerIsAdmin
    THEN [reply |-> Reply("authz", "error", MsgUnauthorized), users |-> users]
    ELSE IF email = "" \/ role = ""
    THEN [reply |-> Reply("args", "error", MsgRequired), users |-> users]
    ELSE IF role /= "admin" /\ role /= "user"
    THEN [reply |-> Reply("args", "error", MsgBadRole), users |-> users]
    ELSE IF dbFails
    THEN [reply |-> Reply("lookup", "error", MsgSetRoleFailed), users |-> users]
    ELSE IF email \notin DOMAIN users
    THEN [reply |-> Reply("lookup", "error", MsgUnableToUpdate), users |-> users]
    ELSE [reply |-> Reply("update", "success", MsgRoleUpdated(role)),
          users |-> [users EXCEPT ![email] = role]]

\* the catch block of the rate-limit try: log the error and continue
SetUserRoleOnArcjetError(callerIsAdmin, email, role, dbFails) ==
    [reply  |-> SetUserRoleProceed(callerIsAdmin, email, role, dbFails).reply,
     users  |-> SetUserRoleProceed(callerIsAdmin, email, role, dbFails).users,
     logged |-> TRUE]

SetUserRoleOnDenied(reason) ==
    IF reason = "RATE_LIMIT" THEN Reply("admission", "error", MsgTooManyRequests)
    ELSE Reply("admission", "error", MsgBlocked)

setUserRole(ip, callerIsAdmin, email, role, arcjet, dbFails) ==
    LET cost == RATE_LIMITS.ADMIN
        d    == aj_protect(ip, cost, arcjet)
        go   == SetUserRoleProceed(callerIsAdmin, email, role, dbFails)
        err  == SetUserRoleOnArcjetError(callerIsAdmin, email, role, dbFails)
        \* the record of the request, with the call it was made with
        Rec(protect, logged, reply) ==
            [request |-> [callerIsAdmin |-> callerIsAdmin, email |-> email, role |-> role]]
                @@ ActionRecord("setUserRole", ip, cost, protect, logged, reply)
    IN  /\ IF arcjet = "error"
           THEN /\ buckets' = buckets
                /\ users' = err.users
                /\ last' = Rec("threw", err.logged, err.reply)
           ELSE /\ buckets' = [buckets EXCEPT ![ip] = d.bucket]
                /\ IF d.conclusion = "DENY"
                   THEN /\ users' = users
                        /\ last' = Rec(ProtectTag(d), FALSE, SetUserRoleOnDenied(d.reason))
                   ELSE /\ users' = go.users
                        /\ last' = Rec(ProtectTag(d), FALSE, go.reply)
        /\ UNCHANGED <<now, subscribers, burst>>

----------------------------------------------------------------------------
(* JSON values, as the MCP route reads them *)

Undefined == [type |-> "undefined"]
JNull == [type |-> "null"]
Num(n) == [type |-> "number", value |-> n]
Str(s) == [type |-> "string", value |-> s]

\* obj.field: undefined when the field is absent or obj is no object
Get(obj, field) ==
    IF obj.type = "object" /\ field \in DOMAIN obj THEN obj[field] ELSE Undefined

\* reading a property of null or undefined throws a TypeError
Nullish(v) == v.type \in {"undefined", "null"}

\* a value that || replaces by its right-hand side
Falsy(v) == Nullish(v) \/ (v.type = "number" /\ v.value = 0)

----------------------------------------------------------------------------
(* src/lib/mcp/dice-roller.ts *)

\* resolution of the random source: Math.random() is r / RndSteps, r in 0..RndSteps-1
RndSteps == 4
Rnd == 0 .. (RndSteps - 1)

MinSides == 2
MaxSides == 100
MinCount == 1
MaxCount == 20
DefaultSides == 6
\* the faces of the d20: rollDice(20)
D20Sides == 20

MsgSides == "Dice sides must be between 2 and 100"
MsgCount == "Dice count must be between 1 and 20"

Return(v) == [threw |-> FALSE, value |-> v]
Throw(m) == [threw |-> TRUE, message |-> m]

rollDice_Clamp(sides, r) ==
    LET s == IF sides < MinSides THEN MinSides
             ELSE IF sides > MaxSides THEN MaxSides ELSE sides
    IN  Return(((r * s) \div RndSteps) + 1)

\* rollDice(sides) with Math.random() = r / RndSteps
rollDice(sides, r) ==
    IF sides < MinSides \/ sides > MaxSides
    THEN Throw(MsgSides)
    ELSE Return(((r * sides) \div RndSteps) + 1)

RECURSIVE Sum(_)
Sum(seq) == IF seq = <<>> THEN 0 ELSE Head(seq) + Sum(Tail(seq))

rollMultipleDice_Reversed(count, sides, draws) ==
    IF count.type = "number" /\ (count.value < MinCount \/ count.value > MaxCount)
    THEN Throw(MsgCount)
    ELSE IF sides < MinSides \/ sides > MaxSides
    THEN Throw(MsgSides)
    ELSE LET n     == IF count.type = "number" THEN count.value ELSE 0
             rolls == [i \in 1..n |-> rollDice(sides, draws[n + 1 - i]).value]
         IN  Return([rolls |-> rolls, total |-> Sum(rolls), sides |-> sides, count |-> count])

\* rollMultipleDice(count, sides): count is the JSON value handed in, and an
\* undefined count fails neither comparison and rolls no die
rollMultipleDice(count, sides, draws) ==
    IF count.type = "number" /\ (count.value < MinCount \/ count.value > MaxCount)
    THEN Throw(MsgCount)
    ELSE IF sides < MinSides \/ sides > MaxSides
    THEN Throw(MsgSides)
    ELSE LET n     == IF count.type = "number" THEN count.value ELSE 0
             rolls == [i \in 1..n |-> rollDice(sides, draws[i]).value]
         IN  Return([rolls |-> rolls, total |-> Sum(rolls), sides |-> sides, count |-> count])

\* getD20Feedback(roll)
getD20Feedback(roll) ==
    IF roll = 20 THEN "Critical Success!"
    ELSE IF roll = 1 THEN "Critical Failure!"
    ELSE IF roll >= 17 THEN "Excellent!"
    ELSE IF roll >= 12 THEN "Good roll!"
    ELSE IF roll <= 5 THEN "Rough..."
    ELSE ""

\* formatDiceRoll(result): the parts of the rendered text
formatDiceRoll(result) ==
    IF result.count = Num(1)
    THEN <<"Rolled 1d", result.sides, ": **", result.total, "**">>
    ELSE <<"Rolled ", result.count, "d", result.sides, ": ", result.rolls,
           "**Total: ", result.total, "**">>

----------------------------------------------------------------------------
(* src/unnamed/part_004: the MCP server API route *)

\* the names of the tools array, in its order
tools == <<"roll_dice", "roll_multiple_dice", "roll_d20", "roll_d6">>

PARSE_ERROR == -32700
METHOD_NOT_FOUND == -32601
INTERNAL_ERROR == -32603

MsgParseError == "Parse error"
MsgMethodNotFound == "Method not found"
MsgUnknownTool == "Unknown tool"
MsgTypeError == "Cannot read properties of undefined"

\* Response.json(...): a key whose value is undefined is left out
ResultEnvelope(id, result) == [id |-> id, result |-> result, error |-> Undefined]
ErrorEnvelope(id, code, message) ==
    [id |-> id, result |-> Undefined,
     error |-> [type |-> "object", code |-> code, message |-> message]]

TextContent(text) == [type |-> "object", content |-> <<[type |-> "text", text |-> text]>>]

\* args?.sides || 6
SidesOf(args) ==
    LET v == IF Nullish(args) THEN Undefined ELSE Get(args, "sides")
    IN  IF Falsy(v) THEN DefaultSides ELSE v.value

\* the draws a call consumes: one per die rolled
Dice(name, args) ==
    IF name = Str("roll_multiple_dice")
    THEN IF Get(args, "count").type = "number" /\ Get(args, "count").value \in MinCount..MaxCount
         THEN Get(args, "count").value ELSE 0
    ELSE IF name \in {Str("roll_dice"), Str("roll_d20"), Str("roll_d6")} THEN 1
    ELSE 0

Outcome(threw, message, result, invoked) ==
    [threw |-> threw, message |-> message, result |-> result, invoked |-> invoked]

\* the four cases of the switch over the tool name
ToolCase(name, args, draws) ==
    IF name = Str("roll_dice")
    THEN LET sides == SidesOf(args)
             roll  == rollDice(sides, draws[1])
         IN  IF roll.threw THEN Outcome(TRUE, roll.message, Undefined, TRUE)
             ELSE Outcome(FALSE, "", TextContent(<<"Rolled a ", sides, "-sided dice: **",
                                                   roll.value, "**">>), TRUE)
    ELSE IF name = Str("roll_multiple_dice")
    THEN IF Nullish(args) THEN Outcome(TRUE, MsgTypeError, Undefined, FALSE)
         ELSE LET r == rollMultipleDice(Get(args, "count"), SidesOf(args), draws)
              IN  IF r.threw THEN Outcome(TRUE, r.message, Undefined, TRUE)
                  ELSE Outcome(FALSE, "", TextContent(formatDiceRoll(r.value)), TRUE)
    ELSE IF name = Str("roll_d20")
    THEN LET roll == rollDice(D20Sides, draws[1]).value
         IN  Outcome(FALSE, "", TextContent(<<"d20 roll: **", roll, "**",
                                              getD20Feedback(roll)>>), TRUE)
    ELSE LET roll == rollDice(6, draws[1]).value
         IN  Outcome(FALSE, "", TextContent(<<"d6 roll: **", roll, "**">>), TRUE)

ToolNames == {Str(tools[i]) : i \in 1..Len(tools)}

SwitchTool_NoDefault(name, args, draws) ==
    IF name \in ToolNames
    THEN ToolCase(name, args, draws)
    ELSE Outcome(FALSE, "", Undefined, FALSE)

\* the switch over the tool name: the result, or the error thrown; invoked
\* tells whether a dice function was called
SwitchTool(name, args, draws) ==
    IF name \in ToolNames
    THEN ToolCase(name, args, draws)
    ELSE Outcome(TRUE, MsgUnknownTool, Undefined, FALSE)

\* what a handled request gives: the envelopes returned, or escaped when
\* an exception leaves the block
Returned(env, invoked) == [escaped |-> FALSE, out |-> <<env>>, invoked |-> invoked]
Escaped == [escaped |-> TRUE, out |-> <<>>, invoked |-> FALSE]

ToolsCall_NoInnerCatch(body, draws) ==
    IF Nullish(Get(body, "params"))
    THEN Escaped
    ELSE LET name == Get(Get(body, "params"), "name")
             args == Get(Get(body, "params"), "arguments")
             o    == SwitchTool(name, args, draws)
         IN  IF o.threw
             THEN Escaped
             ELSE Returned(ResultEnvelope(Get(body, "id"), o.result), o.invoked)

\* the tools/call branch: destructure params, run the switch, wrap the outcome
ToolsCall(body, draws) ==
    IF Nullish(Get(body, "params"))
    THEN Escaped
    ELSE LET name == Get(Get(body, "params"), "name")
             args == Get(Get(body, "params"), "arguments")
             o    == SwitchTool(name, args, draws)
         IN  IF o.threw
             THEN Returned(ErrorEnvelope(Get(body, "id"), INTERNAL_ERROR, o.message), o.invoked)
             ELSE Returned(ResultEnvelope(Get(body, "id"), o.result), o.invoked)

ToolsList_ThreeTools(body) ==
    Returned(ResultEnvelope(Get(body, "id"),
                            [type |-> "object", tools |-> SubSeq(tools, 1, 3)]), FALSE)

ToolsList(body) ==
    Returned(ResultEnvelope(Get(body, "id"), [type |-> "object", tools |-> tools]), FALSE)

UnknownMethod_NullId(body) ==
    Returned(ErrorEnvelope(JNull, METHOD_NOT_FOUND, MsgMethodNotFound), FALSE)

UnknownMethod(body) ==
    Returned(ErrorEnvelope(Get(body, "id"), METHOD_NOT_FOUND, MsgMethodNotFound), FALSE)

ParseErrorResponse == Returned(ErrorEnvelope(JNull, PARSE_ERROR, MsgParseError), FALSE)

\* POST(request): body is what request.json() gives, or unparseable
POST(body, draws) ==
    IF body.type = "unparseable" \/ Nullish(body)
    THEN ParseErrorResponse
    ELSE LET r == IF Get(body, "method") = Str("tools/list") THEN ToolsList(body)
                  ELSE IF Get(body, "method") = Str("tools/call") THEN ToolsCall(body, draws)
                  ELSE UnknownMethod(body)
         IN  IF r.escaped THEN ParseErrorResponse ELSE r

\* the request bodies tried
SidesInputs == {Undefined, Num(0), Num(1), Num(6), Num(101)}
CountInputs == {Undefined, Num(0), Num(2), Num(21)}
Params(name, args) == [type |-> "object", name |-> name, arguments |-> args]
ParamInputs ==
    {Undefined, JNull} \cup
    {Params(Str("roll_dice"), a) :
        a \in {Undefined} \cup {[type |-> "object", sides |-> s] : s \in SidesInputs}} \cup
    {Params(Str("roll_multiple_dice"), a) :
        a \in {Undefined} \cup {[type |-> "object", sides |-> s, count |-> c] :
                                    s \in SidesInputs \ {Num(1)}, c \in CountInputs}} \cup
    {Params(n, Undefined) : n \in {Str("roll_d20"), Str("roll_d6"), Str("flip_coin"), Undefined}}
IdInputs == {Undefined, JNull, Num(1)}
Bodies ==
    {[type |-> "unparseable"], JNull, Num(5)} \cup
    {[type |-> "object", id |-> i, method |-> Str("tools/call"), params |-> p] :
        i \in IdInputs, p \in ParamInputs} \cup
    {[type |-> "object", id |-> i, method |-> m, params |-> p] :
        i \in IdInputs, m \in {Str("tools/list"), Str("ping"), Undefined},
        p \in {Undefined, Params(Str("roll_d6"), Undefined)}}

IsToolsCall(body) == body.type = "object" /\ body.method = Str("tools/call")

\* the draws the request may consume
DrawsFor(body) ==
    IF IsToolsCall(body) /\ ~Nullish(body.params)
    THEN [1 .. Dice(body.params.name, body.params.arguments) -> Rnd]
    ELSE {<<>>}

\* consecutive tools/call requests counted up to here
MaxRapid == 3

\* a request to the route from caller ip
Post(ip, body, draws) ==
    LET r == POST(body, draws)
    IN  /\ last' = [op      |-> "POST",
                    ip      |-> ip,
                    body    |-> body,
                    out     |-> r.out,
                    invoked |-> r.invoked,
                    draws   |-> draws,
                    budget  |-> Refill(tokenBucket, buckets[ip], now),
                    nth     |-> IF ~IsToolsCall(body) THEN 0
                                ELSE IF last.op = "POST" /\ last.ip = ip
                                     THEN Min(last.nth + 1, MaxRapid)
                                     ELSE 1]
        /\ UNCHANGED <<now, buckets, subscribers, users, burst>>

----------------------------------------------------------------------------
(* The clock *)

\* no request handled since the clock last moved
NoRequest == [op |-> "none"]

\* time passes; last keeps only what was handled at the present time

Tick ==
    /\ now + TickSeconds <= MaxNow
    /\ now' = now + TickSeconds
    /\ last' = NoRequest
    /\ UNCHANGED <<buckets, subscribers, users, burst>>

----------------------------------------------------------------------------
(* The server actions with the clock *)

NoBurst == [cfg |-> tokenBucket, cost |-> 0, n |-> 0, admitted |-> 0,
            bucket |-> FullBucket(tokenBucket, 0)]

Init ==
    /\ now = 0
    /\ buckets = [ip \in IPs |-> FullBucket(tokenBucket, 0)]
    /\ subscribers = {}
    /\ users = [u \in KnownUsers |-> "user"]
    /\ last = NoRequest
    /\ burst = NoBurst

Next ==
    \/ Tick
    \/ \E ip \in IPs, email \in FormEmails, arcjet \in ArcjetConditions, dbFails \in BOOLEAN :
          subscribeToNewsletter(ip, email, arcjet, dbFails)
    \/ \E ip \in IPs, r \in RoleRequests, arcjet \in ArcjetConditions, dbFails \in BOOLEAN :
          setUserRole(ip, r.callerIsAdmin, r.email, r.role, arcjet, dbFails)

Spec == Init /\ [][Next]_vars

----------------------------------------------------------------------------
(* The MCP route, with an admin action that drains the caller's bucket *)

GatewayIPs == {"10.0.0.1"}

NextGateway ==
    \/ \E ip \in GatewayIPs, body \in Bodies :
          \E draws \in DrawsFor(body) : Post(ip, body, draws)
    \/ \E ip \in GatewayIPs, r \in RoleRequests :
          setUserRole(ip, r.callerIsAdmin, r.email, r.role, "ok", FALSE)

SpecGateway == Init /\ [][NextGateway]_vars

----------------------------------------------------------------------------
(* Back-to-back charges of one cost against one full bucket *)

Charge ==
    /\ burst.cost > 0
    /\ burst.n < MaxCharges
    /\ LET c == CheckAndCharge(burst.cfg, burst.bucket, burst.cost, now)
       IN  burst' = [burst EXCEPT !.n = @ + 1,
                                  !.admitted = @ + (IF c.allowed THEN 1 ELSE 0),
                                  !.bucket = c.bucket]
    /\ UNCHANGED <<now, buckets, subscribers, users, last>>

InitBurst ==
    /\ now = 0
    /\ buckets = [ip \in IPs |-> FullBucket(tokenBucket, 0)]
    /\ subscribers = {}
    /\ users = [u \in KnownUsers |-> "user"]
    /\ last = NoRequest
    /\ burst \in {[cfg      |-> [tokenBucket EXCEPT !.capacity = cap],
                   cost     |-> cost,
                   n        |-> 0,
                   admitted |-> 0,
                   bucket   |-> FullBucket([tokenBucket EXCEPT !.capacity = cap], 0)] :
                  cap \in 1..MaxCapacity, cost \in 1..MaxCapacity}

NextBurst == Charge

SpecBurst == InitBurst /\ [][NextBurst]_vars

----------------------------------------------------------------------------
(* One caller who waits and retries *)

\* seconds the caller waits in one step
WaitSeconds == 5
\* the caller stops waiting here
MaxRetryNow == 30

\* time passes while last still holds the request handled before the wait
Wait ==
    /\ now + WaitSeconds <= MaxRetryNow
    /\ now' = now + WaitSeconds
    /\ UNCHANGED <<buckets, subscribers, users, last, burst>>

NextRetry ==
    \/ Wait
    \/ \E ip \in GatewayIPs, email \in FormEmails :
          subscribeToNewsletter(ip, email, "ok", FALSE)
    \/ \E ip \in GatewayIPs, r \in RoleRequests :
          setUserRole(ip, r.callerIsAdmin, r.email, r.role, "ok", FALSE)

SpecRetry == Init /\ [][NextRetry]_vars

----------------------------------------------------------------------------
(* The dice functions on their own, and roll_multiple_dice through the route *)

\* sides tried: 0 .. MaxTriedSides
MaxTriedSides == 102
\* counts tried: 0 .. MaxTriedCount, and no count
MaxTriedCount == 21

\* the sequences of n values of the random source tried: every value at
\* every position, constant runs and runs that step through the values
DrawPatterns(n) == {[i \in 1..n |-> (a + b * i) % RndSteps] : a, b \in Rnd}

\* the arguments a function is about to be called with
DiceInputs ==
    {[op |-> "args", fn |-> "rollDice", sides |-> s] : s \in 0..MaxTriedSides} \cup
    {[op |-> "args", fn |-> "rollMultipleDice", count |-> c, sides |-> s] :
        c \in {Undefined} \cup {Num(n) : n \in 0..MaxTriedCount}, s \in 0..MaxTriedSides} \cup
    {[op |-> "args", fn |-> "getD20Feedback", roll |-> v] : v \in 1..D20Sides}

HasArgs(fn) == last.op = "args" /\ last.fn = fn

\* the draws a call of rollMultipleDice(count, sides) consumes
DrawsOfCount(count) ==
    DrawPatterns(IF count.type = "number" /\ count.value \in MinCount..MaxCount
                 THEN count.value ELSE 0)

RollDice ==
    /\ HasArgs("rollDice")
    /\ \E r \in Rnd :
          last' = [op |-> "rollDice", sides |-> last.sides, r |-> r,
                   out |-> rollDice(last.sides, r)]
    /\ UNCHANGED <<now, buckets, subscribers, users, burst>>

RollMultipleDice ==
    /\ HasArgs("rollMultipleDice")
    /\ \E draws \in DrawsOfCount(last.count) :
          last' = [op |-> "rollMultipleDice", count |-> last.count, sides |-> last.sides,
                   draws |-> draws,
                   out |-> rollMultipleDice(last.count, last.sides, draws)]
    /\ UNCHANGED <<now, buckets, subscribers, users, burst>>

GetD20Feedback ==
    /\ HasArgs("getD20Feedback")
    /\ last' = [op |-> "getD20Feedback", roll |-> last.roll,
                feedback |-> getD20Feedback(last.roll)]
    /\ UNCHANGED <<now, buckets, subscribers, users, burst>>

\* the tools/call request for roll_multiple_dice with these arguments
RollMultipleDiceBody(count, sides) ==
    [type |-> "object", id |-> Num(1), method |-> Str("tools/call"),
     params |-> Params(Str("roll_multiple_dice"),
                       [type |-> "object", sides |-> Num(sides), count |-> count])]

InitDice ==
    /\ now = 0
    /\ buckets = [ip \in IPs |-> FullBucket(tokenBucket, 0)]
    /\ subscribers = {}
    /\ users = [u \in KnownUsers |-> "user"]
    /\ last \in DiceInputs
    /\ burst = NoBurst

NextDice ==
    \/ RollDice
    \/ RollMultipleDice
    \/ GetD20Feedback
    \/ /\ HasArgs("rollMultipleDice")
       /\ \E ip \in GatewayIPs, draws \in DrawsOfCount(last.count) :
             Post(ip, RollMultipleDiceBody(last.count, last.sides), draws)

SpecDice == InitDice /\ [][NextDice]_vars

----------------------------------------------------------------------------
(* src/mcp-servers/roll-dice/src/index.ts: the stdio server *)

\* the values of process.env.MCP_AUTH_TOKEN tried: unset, empty, set
AuthTokens == {Undefined, Str(""), Str("dev-token")}

\* validateAuthentication(), with env the value of process.env.MCP_AUTH_TOKEN:
\* true when no token is configured, else the token compared with a second
\* read of the same variable
validateAuthentication(env) ==
    LET authToken == env
    IN  IF authToken = Undefined \/ authToken = Str("")
        THEN TRUE
        ELSE authToken = env

MsgAuthenticationFailed == "Authentication failed"

\* the names of the server's tools array, in its order
stdio_tools == <<"roll_dice", "roll_multiple_dice", "roll_d20">>

stdio_rollDice(sides, r) ==
    IF sides < MinSides \/ sides > MaxSides
    THEN Throw(MsgSides)
    ELSE Return(((r * sides) \div RndSteps) + 1)

\* rollMultipleDice(count, sides) of the server: the sides are checked by
\* rollDice, so only when a die is rolled
stdio_rollMultipleDice(count, sides, draws) ==
    IF count.type = "number" /\ (count.value < MinCount \/ count.value > MaxCount)
    THEN Throw(MsgCount)
    ELSE LET n == IF count.type = "number" THEN count.value ELSE 0
         IN  IF n > 0 /\ stdio_rollDice(sides, draws[1]).threw
             THEN Throw(MsgSides)
             ELSE Return([i \in 1..n |-> stdio_rollDice(sides, draws[i]).value])

\* the feedback of the roll_d20 case
stdio_d20Feedback(result) ==
    IF result = 20 THEN "Critical Success!"
    ELSE IF result = 1 THEN "Critical Failure!"
    ELSE IF result >= 15 THEN "Great roll!"
    ELSE ""

\* the switch of the CallTool handler
stdio_SwitchTool(name, args, draws) ==
    IF name = Str("roll_dice")
    THEN LET sides  == SidesOf(args)
             result == stdio_rollDice(sides, draws[1])
         IN  IF result.threw THEN Outcome(TRUE, result.message, Undefined, TRUE)
             ELSE Outcome(FALSE, "", TextContent(<<"Rolled a ", sides, "-sided dice: **",
                                                   result.value, "**">>), TRUE)
    ELSE IF name = Str("roll_multiple_dice")
    THEN LET count   == IF Nullish(args) THEN Undefined ELSE Get(args, "count")
             sides   == SidesOf(args)
             results == stdio_rollMultipleDice(count, sides, draws)
         IN  IF results.threw THEN Outcome(TRUE, results.message, Undefined, TRUE)
             ELSE Outcome(FALSE, "", TextContent(<<"Rolled ", count, "d", sides, ": ",
                                                   results.value, "Total: **",
                                                   Sum(results.value), "**">>), TRUE)
    ELSE IF name = Str("roll_d20")
    THEN LET result == stdio_rollDice(D20Sides, draws[1]).value
         IN  Outcome(FALSE, "", TextContent(<<"d20 roll: **", result, "**",
                                              stdio_d20Feedback(result)>>), TRUE)
    ELSE Outcome(TRUE, MsgUnknownTool, Undefined, FALSE)

\* the CallTool handler: what it returns or throws, whether the switch was
\* entered, and the security events it logged
CallToolHandler(env, name, args, draws) ==
    IF ~validateAuthentication(env)
    THEN [threw |-> TRUE, message |-> MsgAuthenticationFailed, result |-> Undefined,
          ran |-> FALSE, invoked |-> FALSE, events |-> <<"auth_failed">>]
    ELSE LET o == stdio_SwitchTool(name, args, draws)
         IN  [threw |-> o.threw, message |-> o.message, result |-> o.result,
              ran |-> TRUE, invoked |-> o.invoked,
              events |-> IF o.threw THEN <<"tool_called", "tool_error">>
                         ELSE <<"tool_called">>]

\* the tools/call params tried: those whose name is a string
StdioParams == {p \in ParamInputs : p.type = "object" /\ p.name.type = "string"}

\* the server process started with environment env
Started(env) == [op |-> "start", env |-> env]

StdioRunning == last.op \in {"start", "CallTool", "ListTools"}

CallTool(params, draws) ==
    /\ StdioRunning
    /\ last' = [op     |-> "CallTool",
                env    |-> last.env,
                params |-> params,
                draws  |-> draws,
                out    |-> CallToolHandler(last.env, params.name, params.arguments, draws)]
    /\ UNCHANGED <<now, buckets, subscribers, users, burst>>

ListTools ==
    /\ StdioRunning
    /\ last' = [op     |-> "ListTools",
                env    |-> last.env,
                out    |-> [tools |-> stdio_tools, events |-> <<"tools_listed">>]]
    /\ UNCHANGED <<now, buckets, subscribers, users, burst>>

InitStdio ==
    /\ now = 0
    /\ buckets = [ip \in IPs |-> FullBucket(tokenBucket, 0)]
    /\ subscribers = {}
    /\ users = [u \in KnownUsers |-> "user"]
    /\ last \in {Started(env) : env \in AuthTokens}
    /\ burst = NoBurst

NextStdio ==
    \/ ListTools
    \/ \E params \in StdioParams :
          \E draws \in [1 .. Dice(params.name, params.arguments) -> Rnd] :
             CallTool(params, draws)

SpecStdio == InitStdio /\ [][NextStdio]_vars

\* the feedback of both servers for one d20 roll
D20Feedback ==
    /\ HasArgs("getD20Feedback")
    /\ last' = [op    |-> "d20Feedback",
                roll  |-> last.roll,
                http  |-> getD20Feedback(last.roll),
                stdio |-> stdio_d20Feedback(last.roll)]
    /\ UNCHANGED <<now, buckets, subscribers, users, burst>>

\* the dice functions of both servers, side by side
NextBoth ==
    \/ NextDice
    \/ D20Feedback

SpecBoth == InitDice /\ [][NextBoth]_vars

----------------------------------------------------------------------------
(* Properties *)

IsPost == last.op = "POST"
IsAction == last.op \in {"subscribeToNewsletter", "setUserRole"}

HasResult(env) == env.result /= Undefined
HasError(env) == env.error /= Undefined
\* the error code of an envelope, 0 when it carries no error
ErrorCode(env) == IF HasError(env) THEN env.error.code ELSE 0

ReservedCodes == {PARSE_ERROR, METHOD_NOT_FOUND, INTERNAL_ERROR}

\* the balance of the caller of the last request, as a check would find it now
BalanceNow(ip) == Refill(tokenBucket, buckets[ip], now)

\* C1: every request body handled by the route (unparseable, unknown method,
\* tools/list, tools/call with any tool name and arguments, a throwing
\* handler) is answered by exactly one envelope, which carries exactly one
\* of result and error.
C1_OneEnvelope ==
    IsPost => /\ Len(last.out) = 1
              /\ HasResult(last.out[1]) /= HasError(last.out[1])

\* a tools/call whose dice function threw was answered by an error envelope
C1_Witness ==
    /\ IsPost
    /\ IsToolsCall(last.body)
    /\ last.invoked
    /\ Len(last.out) = 1
    /\ ErrorCode(last.out[1]) = INTERNAL_ERROR

\* the arguments name a numeric sides outside [2,100]
HasInvalidArguments(body) ==
    /\ IsToolsCall(body)
    /\ Get(body.params, "name") \in {Str("roll_dice"), Str("roll_multiple_dice")}
    /\ Get(Get(body.params, "arguments"), "sides").type = "number"
    /\ Get(Get(body.params, "arguments"), "sides").value \notin MinSides..MaxSides

\* C2: on the tools/call path admission control comes first: a call whose
\* caller has no budget left and whose arguments are invalid is answered
\* with the rate-limit error, an error outside the reserved protocol codes,
\* and no dice function is invoked for it.
C2_AdmissionBeforeValidation ==
    (IsPost /\ HasInvalidArguments(last.body) /\ last.budget = 0)
        => /\ HasError(last.out[1])
           /\ ErrorCode(last.out[1]) \notin ReservedCodes
           /\ ~last.invoked

\* C3: of the tools/call requests one caller sends with no time passing,
\* the first two succeed and the third and every later one is answered with
\* the rate-limit error, whose code is none of -32700, -32601, -32603.
C3_ThirdCallRateLimited ==
    (IsPost /\ IsToolsCall(last.body))
        => /\ (last.nth \in {1, 2} /\ last.body.params = Params(Str("roll_d6"), Undefined))
                => HasResult(last.out[1])
           /\ last.nth >= 3
                => (HasError(last.out[1]) /\ ErrorCode(last.out[1]) \notin ReservedCodes)

\* C4: every bucket holds between 0 and capacity tokens; a charge that
\* costs more than the refilled balance is rejected and leaves the refilled
\* balance, and an admitted charge takes exactly its cost.
C4_BucketBounds ==
    /\ \A ip \in IPs :
          /\ buckets[ip].tokens >= 0
          /\ buckets[ip].tokens <= Units(tokenBucket, tokenBucket.capacity)
    /\ (IsAction /\ last.protect \in {"allowed", "rateLimited"})
          => /\ (Units(tokenBucket, last.cost) > last.refilled)
                    <=> (last.protect = "rateLimited")
             /\ last.protect = "rateLimited"
                    => buckets[last.ip].tokens = last.refilled
             /\ last.protect = "allowed"
                    => buckets[last.ip].tokens
                           = last.refilled - Units(tokenBucket, last.cost)

\* a charge was rejected against a partly refilled bucket
C4_Witness ==
    /\ IsAction
    /\ last.protect = "rateLimited"
    /\ last.refilled > 0
    /\ now > 0

\* C5: of n back-to-back charges of cost c against a full bucket of capacity
\* C exactly min(n, floor(C/c)) are admitted; with the configured bucket that
\* is 2 newsletter or project requests, 1 admin request and 5 database
\* requests.
C5_FloorAdmitted ==
    burst.cost > 0
        => /\ burst.admitted = Min(burst.n, burst.cfg.capacity \div burst.cost)
           /\ (burst.cfg = tokenBucket /\ burst.n = MaxCharges)
                => /\ burst.cost = RATE_LIMITS.NEWSLETTER => burst.admitted = 2
                   /\ burst.cost = RATE_LIMITS.PROJECT => burst.admitted = 2
                   /\ burst.cost = RATE_LIMITS.ADMIN => burst.admitted = 1
                   /\ burst.cost = RATE_LIMITS.DATABASE => burst.admitted = 5

\* a burst of database-cost charges against the configured bucket ran out
C5_Witness ==
    /\ burst.cfg = tokenBucket
    /\ burst.cost = RATE_LIMITS.DATABASE
    /\ burst.n = MaxCharges
    /\ burst.admitted < burst.n

\* C7: the call sites charge one bucket per caller: with a full bucket and
\* no time passing, an admitted role change makes the newsletter check that
\* follows for the same caller a rate-limit denial, and an admitted
\* newsletter submission does the same to the role change that follows.
C7_SharedBucket ==
    [][ (/\ last.op \in {"subscribeToNewsletter", "setUserRole"}
         /\ last.protect = "allowed"
         /\ last.refilled = Units(tokenBucket, tokenBucket.capacity)
         /\ last'.op \in {"subscribeToNewsletter", "setUserRole"}
         /\ last'.op /= last.op
         /\ last'.ip = last.ip
         /\ last'.protect \in {"allowed", "rateLimited"})
            => /\ last'.protect = "rateLimited"
               /\ last'.reply.status = "error"
               /\ last'.reply.reached = "admission" ]_vars

\* a newsletter submission was denied against a bucket an admin action emptied
C7_Witness ==
    /\ last.op = "subscribeToNewsletter"
    /\ last.protect = "rateLimited"
    /\ last.refilled = 0
    /\ last.reply.message = MsgTooManySubscriptions

\* C8: admission control fails open: when the check throws, the error is
\* logged and the request goes on to the later checks; the reply is never a
\* rate-limit or blocked reply.
C8_FailOpen ==
    (IsAction /\ last.protect = "threw")
        => /\ last.logged
           /\ last.reply.reached /= "admission"
           /\ last.reply.message \notin {MsgTooManySubscriptions, MsgTooManyRequests,
                                         MsgBotDetected, MsgBlockedLater, MsgBlocked}

\* a request was served although its admission check threw
C8_Witness ==
    /\ IsAction
    /\ last.protect = "threw"
    /\ last.logged
    /\ last.reply.status = "success"

\* C9: an undecodable buffer is answered with id null and code -32700, and
\* a message that decodes is never answered with -32700.
C9_ParseErrorOnlyWhenUnparseable ==
    IsPost
        => /\ last.body.type = "unparseable"
                => (last.out[1].id = JNull /\ ErrorCode(last.out[1]) = PARSE_ERROR)
           /\ last.body.type = "object"
                => ErrorCode(last.out[1]) /= PARSE_ERROR

\* C10: a message whose method is neither tools/list nor tools/call is
\* answered with code -32601 and its own id, whatever its params; no dice
\* function runs and the caller's bucket is left as it was.
C10_UnknownMethod ==
    (IsPost /\ last.body.type = "object"
            /\ last.body.method \notin {Str("tools/list"), Str("tools/call")})
        => /\ ErrorCode(last.out[1]) = METHOD_NOT_FOUND
           /\ ~HasResult(last.out[1])
           /\ last.out[1].id = last.body.id
           /\ ~last.invoked
           /\ BalanceNow(last.ip) = last.budget

\* an unknown method that carried an id and the params of a tool call
C10_Witness ==
    /\ IsPost
    /\ last.body.type = "object"
    /\ last.body.method = Str("ping")
    /\ last.body.id = Num(1)
    /\ last.body.params /= Undefined
    /\ ErrorCode(last.out[1]) = METHOD_NOT_FOUND

\* the tool name and the arguments of a tools/call body
NameOf(body) == Get(Get(body, "params"), "name")
ArgsOf(body) == Get(Get(body, "params"), "arguments")

\* C11: a tools/call whose params carry no tool name (params absent, or
\* params without name) is answered by an error envelope whose code is the
\* invalid-params code, a code that is none of the parse-error,
\* method-not-found and internal-error codes, and whose id is the request's.
C11_MissingNameInvalidParams ==
    (IsPost /\ IsToolsCall(last.body) /\ NameOf(last.body) = Undefined)
        => /\ HasError(last.out[1])
           /\ ErrorCode(last.out[1]) \notin ReservedCodes
           /\ last.out[1].id = last.body.id

\* C12: a tools/call naming a tool that is not in the catalog is answered
\* with code -32601, not with the internal-error code of handler faults.
C12_UnknownToolMethodNotFound ==
    (IsPost /\ IsToolsCall(last.body)
            /\ NameOf(last.body).type = "string"
            /\ NameOf(last.body) \notin ToolNames)
        => /\ ErrorCode(last.out[1]) = METHOD_NOT_FOUND
           /\ ErrorCode(last.out[1]) /= INTERNAL_ERROR

\* C13: a tools/call for roll_dice or roll_multiple_dice whose numeric sides
\* lies outside [2,100] (sides = 0 for one) is answered by an error envelope
\* with the invalid-params code, none of -32700, -32601, -32603, whose
\* message is the one naming sides; it is never answered with a result, so
\* the value is never replaced by the default.
C13_SidesOutOfRangeRejected ==
    (IsPost /\ HasInvalidArguments(last.body))
        => /\ ~HasResult(last.out[1])
           /\ HasError(last.out[1])
           /\ ErrorCode(last.out[1]) \notin ReservedCodes

\* C14: a tools/call for roll_multiple_dice without count (arguments
\* absent, or arguments without count) is answered by an error envelope and
\* never by a result.
C14_MissingCountRejected ==
    (IsPost /\ IsToolsCall(last.body)
            /\ NameOf(last.body) = Str("roll_multiple_dice")
            /\ Get(ArgsOf(last.body), "count") = Undefined)
        => /\ ~HasResult(last.out[1])
           /\ HasError(last.out[1])

\* the request reaches the switch and the case it selects throws: a sides
\* or count the dice functions refuse, arguments that cannot be read, or
\* the default case
HandlerThrows(body) ==
    /\ IsToolsCall(body)
    /\ ~Nullish(body.params)
    /\ \/ /\ NameOf(body) = Str("roll_dice")
          /\ SidesOf(ArgsOf(body)) \notin MinSides..MaxSides
       \/ /\ NameOf(body) = Str("roll_multiple_dice")
          /\ \/ Nullish(ArgsOf(body))
             \/ /\ Get(ArgsOf(body), "count").type = "number"
                /\ Get(ArgsOf(body), "count").value \notin MinCount..MaxCount
             \/ SidesOf(ArgsOf(body)) \notin MinSides..MaxSides
       \/ NameOf(body) \notin ToolNames

\* C15: every exception thrown while a tool handler runs is caught and
\* answered by one error envelope with code -32603 and the request's id;
\* the request is never left without an answer and never answered with the
\* parse-error envelope of the outer catch.
C15_HandlerFaultInternalError ==
    (IsPost /\ HandlerThrows(last.body))
        => /\ Len(last.out) = 1
           /\ ~HasResult(last.out[1])
           /\ ErrorCode(last.out[1]) = INTERNAL_ERROR
           /\ last.out[1].id = last.body.id

\* rollMultipleDice refused a count of 21 and the request, which carried an
\* id, was answered with the thrown message
C15_Witness ==
    /\ IsPost
    /\ HandlerThrows(last.body)
    /\ last.invoked
    /\ last.body.id = Num(1)
    /\ last.out[1].id = Num(1)
    /\ last.out[1].error.code = INTERNAL_ERROR
    /\ last.out[1].error.message = MsgCount

\* C16: every envelope answering a message that decoded to an object carries
\* the id the message supplied, and id null when the message has none.
C16_IdEchoedOrNull ==
    (IsPost /\ last.body.type = "object")
        => last.out[1].id = (IF last.body.id = Undefined THEN JNull ELSE last.body.id)

IsToolsList(body) == body.type = "object" /\ body.method = Str("tools/list")

\* C17: tools/list is a pure read: whatever was handled before it, and
\* whatever the caller's budget, it is answered by a result holding the
\* catalog, the same tool names in the same order and no name twice; it is
\* never answered with an error, it runs no dice function and it leaves
\* every bucket as it was.
C17_ToolsListPureRead ==
    /\ [](  (IsPost /\ IsToolsList(last.body))
              => /\ Len(last.out) = 1
                 /\ ~HasError(last.out[1])
                 /\ last.out[1].result = [type |-> "object", tools |-> tools]
                 /\ Cardinality({last.out[1].result.tools[i] : i \in 1..Len(tools)})
                        = Len(tools)
                 /\ ~last.invoked
                 /\ BalanceNow(last.ip) = last.budget)
    /\ [][ (last'.op = "POST" /\ IsToolsList(last'.body)) => buckets' = buckets ]_vars

\* the catalog was listed for a caller whose bucket an admin action emptied
C17_Witness ==
    /\ IsPost
    /\ IsToolsList(last.body)
    /\ last.budget = 0
    /\ HasResult(last.out[1])
    /\ Len(last.out[1].result.tools) = 4

\* C18: rollDice(sides) returns an integer from 1 to sides for every integer
\* sides from 2 to 100 and every value of the random source, and throws,
\* returning no value, for every sides below 2 or above 100.
C18_RollDiceBounds ==
    last.op = "rollDice"
        => IF last.sides \in MinSides..MaxSides
           THEN /\ ~last.out.threw
                /\ last.out.value \in 1..last.sides
           ELSE /\ last.out.threw
                /\ last.out.message = MsgSides

\* a die of 100 sides was rolled with the largest value of the random source
C18_Witness ==
    /\ last.op = "rollDice"
    /\ last.sides = MaxSides
    /\ last.r = RndSteps - 1
    /\ ~last.out.threw
    /\ last.out.value > 1

\* the i-th roll of a call, from the i-th value of the random source
NthRoll(sides, draws, i) == ((draws[i] * sides) \div RndSteps) + 1

\* C19: for every count from 1 to 20 and sides from 2 to 100,
\* rollMultipleDice returns count rolls, each from 1 to sides, the i-th one
\* being the i-th die rolled, and a total that is their sum; the answer to
\* the tools/call for roll_multiple_dice is a result whose text carries
\* those rolls and that total.
C19_RollsAndTotal ==
    /\ (/\ last.op = "rollMultipleDice"
        /\ last.count.type = "number"
        /\ last.count.value \in MinCount..MaxCount
        /\ last.sides \in MinSides..MaxSides)
          => /\ ~last.out.threw
             /\ Len(last.out.value.rolls) = last.count.value
             /\ \A i \in 1..last.count.value :
                   /\ last.out.value.rolls[i] \in 1..last.sides
                   /\ last.out.value.rolls[i] = NthRoll(last.sides, last.draws, i)
             /\ last.out.value.total = Sum(last.out.value.rolls)
    /\ (/\ IsPost
        /\ NameOf(last.body) = Str("roll_multiple_dice")
        /\ Get(ArgsOf(last.body), "count").type = "number"
        /\ Get(ArgsOf(last.body), "count").value \in MinCount..MaxCount
        /\ Get(ArgsOf(last.body), "sides").value \in MinSides..MaxSides)
          => LET c == Get(ArgsOf(last.body), "count").value
                 s == Get(ArgsOf(last.body), "sides").value
                 R == [i \in 1..c |-> NthRoll(s, last.draws, i)]
             IN  /\ HasResult(last.out[1])
                 /\ last.out[1].result.content[1].text
                       = IF c = 1
                         THEN <<"Rolled 1d", s, ": **", R[1], "**">>
                         ELSE <<"Rolled ", Num(c), "d", s, ": ", R,
                                "**Total: ", Sum(R), "**">>

\* three six-sided dice were rolled through the route and came up unequal
C19_Witness ==
    /\ IsPost
    /\ NameOf(last.body) = Str("roll_multiple_dice")
    /\ Get(ArgsOf(last.body), "count") = Num(3)
    /\ Get(ArgsOf(last.body), "sides") = Num(6)
    /\ HasResult(last.out[1])
    /\ last.out[1].result.content[1].text[6] = <<2, 4, 5>>
    /\ last.out[1].result.content[1].text[8] = 11

\* C20: for every d20 value from 1 to 20 the feedback is the critical
\* success exactly for 20, the critical failure exactly for 1, no feedback
\* exactly for 2 to 14, and a feedback of its own exactly for 15 to 19.
C20_D20Tiers ==
    last.op = "getD20Feedback"
        => /\ (last.feedback = "Critical Success!") <=> (last.roll = 20)
           /\ (last.feedback = "Critical Failure!") <=> (last.roll = 1)
           /\ (last.feedback = "") <=> (last.roll \in 2..14)
           /\ (last.feedback \notin {"", "Critical Success!", "Critical Failure!"})
                 <=> (last.roll \in 15..19)
           /\ (last.roll \in 15..19) => (last.feedback = getD20Feedback(15))

\* the request handled in this step was checked against the token bucket
CheckedNext ==
    /\ last'.op \in {"subscribeToNewsletter", "setUserRole"}
    /\ last'.protect \in {"allowed", "rateLimited"}

\* C21: a check made exactly one refill interval after the bucket was last
\* touched finds the balance grown by min(R, C - balance); and a denied
\* check stores the refilled balance, never less than the balance before
\* it, with lastRefillAt moved to the time of the check.
C21_RefillAfterInterval ==
    [][ CheckedNext =>
          LET b   == buckets[last'.ip]
              cap == Units(tokenBucket, tokenBucket.capacity)
          IN  /\ (last'.at - b.lastRefillAt = tokenBucket.interval)
                    => last'.refilled
                         = b.tokens + Min(Units(tokenBucket, tokenBucket.refillRate),
                                          cap - b.tokens)
              /\ (last'.protect = "rateLimited")
                    => /\ buckets'[last'.ip].tokens = last'.refilled
                       /\ buckets'[last'.ip].tokens >= b.tokens
                       /\ buckets'[last'.ip].lastRefillAt = last'.at ]_vars

\* an admin action denied five seconds after the bucket was emptied left
\* the two and a half tokens refilled since
C21_Witness ==
    /\ IsAction
    /\ last.protect = "rateLimited"
    /\ last.at = WaitSeconds
    /\ last.refilled > 0
    /\ buckets[last.ip].tokens = last.refilled
    /\ buckets[last.ip].lastRefillAt = last.at

\* C22: admin actions are allowed at one per 10 seconds: when an admin
\* action was admitted and the same caller's next request is an admin action
\* 10 seconds later, that one is admitted too.
C22_AdminEveryTenSeconds ==
    [][ (/\ last.op = "setUserRole"
         /\ last.protect = "allowed"
         /\ CheckedNext
         /\ last'.op = "setUserRole"
         /\ last'.ip = last.ip
         /\ last'.at = last.at + 10)
            => last'.protect = "allowed" ]_vars

\* C23: the buckets of different caller keys are independent: a request of
\* caller A, whatever its outcome, leaves the bucket of every other caller
\* as it was, and a request is rate limited only when its own caller's
\* refilled balance is below its cost.
C23_IndependentBuckets ==
    [][ (last'.op \in {"subscribeToNewsletter", "setUserRole"})
          => /\ \A other \in IPs \ {last'.ip} : buckets'[other] = buckets[other]
             /\ (last'.protect = "rateLimited")
                   => last'.refilled < Units(tokenBucket, last'.cost)
             /\ (last'.protect = "allowed")
                   => last'.refilled >= Units(tokenBucket, last'.cost) ]_vars

\* a caller was admitted against its full bucket while another caller's
\* bucket was empty
C23_Witness ==
    /\ IsAction
    /\ last.protect = "allowed"
    /\ last.refilled = Units(tokenBucket, tokenBucket.capacity)
    /\ \E other \in IPs \ {last.ip} :
          /\ buckets[other].tokens = 0
          /\ buckets[other].lastRefillAt = now

\* the tool names of the route's catalog, as plain strings
HttpToolNames == {tools[i] : i \in 1..Len(tools)}

\* C24: both transports expose the same catalog: the stdio server lists
\* exactly the tool names the HTTP route lists, and a call of any of them
\* (roll_dice, roll_multiple_dice, roll_d20, roll_d6) is never refused as an
\* unknown tool.
C24_SameCatalog ==
    /\ (last.op = "ListTools")
          => {last.out.tools[i] : i \in 1..Len(last.out.tools)} = HttpToolNames
    /\ (last.op = "CallTool" /\ last.params.name.value \in HttpToolNames)
          => ~(last.out.threw /\ last.out.message = MsgUnknownTool)

\* C29: for every d20 value both servers put it in the same class: both
\* give a feedback or both give none, and the value is in the above-average
\* class of one exactly when it is in that of the other.
C29_SameD20Classes ==
    last.op = "d20Feedback"
        => /\ (last.http = "") <=> (last.stdio = "")
           /\ (last.http \in {"Good roll!", "Excellent!"}) <=> (last.stdio = "Great roll!")

\* C30: in the stdio server a tool runs only after validateAuthentication()
\* returned true; when it returns false the call is rejected with
\* 'Authentication failed', an auth_failed event is logged and no tool
\* runs; and some configuration of MCP_AUTH_TOKEN makes it return false.
C30_AuthenticationGate ==
    last.op = "CallTool"
        => /\ last.out.ran => validateAuthentication(last.env)
           /\ ~validateAuthentication(last.env)
                 => /\ last.out.threw
                    /\ last.out.message = MsgAuthenticationFailed
                    /\ last.out.events = <<"auth_failed">>
                    /\ ~last.out.ran
           /\ \E env \in AuthTokens : ~validateAuthentication(env)

\* C25: for a valid email subscribeToNewsletter answers with the same
\* status and the same message whether or not the email is already in the
\* subscribers table: the reply after an insert is the reply given for an
\* email that was found, and a found email is never inserted again.
C25_SameReplyWhetherSubscribed ==
    (last.op = "subscribeToNewsletter" /\ last.reply.reached \in {"lookup", "insert"}
                                        /\ last.reply.status = "success")
        => /\ last.reply.message = MsgGenericInterest
           /\ last.reply.reached = "insert" => Cardinality(subscribers) >= 1

\* the call of setUserRole handled in this step names no valid change:
\* the caller is no admin, an argument is missing, the role is neither
\* admin nor user, or the email is of no user
RefusedRequest(r) ==
    \/ ~r.callerIsAdmin
    \/ r.email = ""
    \/ r.role \notin {"admin", "user"}
    \/ r.email \notin DOMAIN users

\* C26 as claimed: setUserRole changes a role only for an admin caller whose
\* request the rate limiter did not deny; in every other outcome,
\* rate-limited, blocked, non-admin, missing or invalid arguments, unknown
\* email, thrown error, and also when the rate limiter itself fails, no
\* user record changes and the status is error.
C26_Original ==
    [][ (last'.op = "setUserRole")
          => /\ (users' /= users)
                   => (last'.request.callerIsAdmin /\ last'.protect = "allowed")
             /\ (\/ last'.protect \in {"rateLimited", "blocked", "threw"}
                 \/ RefusedRequest(last'.request)
                 \/ last'.reply.status = "error")
                   => (users' = users /\ last'.reply.status = "error") ]_vars

\* C26 as amended: setUserRole changes a role only for an admin caller whose
\* request the rate limiter did not deny; when it is rate-limited or
\* blocked, when the caller is no admin, an argument is missing or invalid,
\* the email is unknown or an error is thrown, no user record changes and
\* the status is error.  A failure of the rate limiter itself is logged and
\* is no denial: the request then goes through the same checks as an
\* admitted one.
C26_RoleChangeOnlyByAdmin ==
    [][ (last'.op = "setUserRole")
          => /\ (users' /= users)
                   => /\ last'.request.callerIsAdmin
                      /\ last'.protect \in {"allowed", "threw"}
                      /\ last'.reply.status = "success"
             /\ (\/ last'.protect \in {"rateLimited", "blocked"}
                 \/ RefusedRequest(last'.request)
                 \/ last'.reply.status = "error")
                   => (users' = users /\ last'.reply.status = "error")
             /\ (last'.protect = "threw")
                   => /\ last'.logged
                      /\ last'.reply.reached /= "admission" ]_vars

\* an admin's role change went through although the rate limiter failed
C26_Witness ==
    /\ last.op = "setUserRole"
    /\ last.protect = "threw"
    /\ last.request.callerIsAdmin
    /\ last.reply.status = "success"
    /\ users["a@x.io"] = "admin"

\* C27: in subscribeToNewsletter the rate-limit decision comes before
\* validation and before the database: a request the limiter denies,
\* rate-limited or blocked, is answered with an error at the admission
\* step, with the message of the denial whatever the form data, and leaves
\* the subscribers table as it was.
C27_DeniedBeforeValidation ==
    [][ (last'.op = "subscribeToNewsletter" /\ last'.protect \in {"rateLimited", "blocked"})
          => /\ subscribers' = subscribers
             /\ last'.reply.status = "error"
             /\ last'.reply.reached = "admission"
             /\ last'.reply.message
                   = (IF last'.protect = "rateLimited" THEN MsgTooManySubscriptions
                      ELSE MsgBlockedLater) ]_vars

\* a third submission at the same second was denied with nothing stored
\* beyond the one subscriber of the first two
C27_Witness ==
    /\ last.op = "subscribeToNewsletter"
    /\ last.protect = "rateLimited"
    /\ last.refilled = 0
    /\ last.at = 0
    /\ last.reply.message = MsgTooManySubscriptions
    /\ subscribers = {"a@x.io"}

\* C28: a rate-limit denial is recoverable by waiting: when a caller was
\* denied and its next request, with no other charge in between, comes
\* after a wait long enough to refill what the request lacks, the request
\* is admitted; a wait that refills a whole bucket always is long enough,
\* and after a denial at an empty bucket 10 seconds are enough for a
\* request of cost 5.
C28_DenialRecoverable ==
    [][ (/\ last.op \in {"subscribeToNewsletter", "setUserRole"}
         /\ last.protect = "rateLimited"
         /\ CheckedNext
         /\ last'.ip = last.ip
         /\ last'.at > last.at)
            => LET dt   == last'.at - last.at
                   need == Units(tokenBucket, last'.cost)
               IN  /\ (last.refilled + tokenBucket.refillRate * dt >= need)
                         => last'.protect = "allowed"
                   /\ (tokenBucket.refillRate * dt
                          >= Units(tokenBucket, tokenBucket.capacity))
                         => last'.protect = "allowed"
                   /\ (last.refilled = 0 /\ last'.cost = 5 /\ dt >= 10)
                         => last'.protect = "allowed" ]_vars

\* a newsletter submission was admitted with exactly the five tokens that
\* ten seconds refill into an emptied bucket
C28_Witness ==
    /\ last.op = "subscribeToNewsletter"
    /\ last.protect = "allowed"
    /\ last.at = 2 * WaitSeconds
    /\ last.refilled = Units(tokenBucket, last.cost)
    /\ buckets[last.ip].tokens = 0

====
